---- MODULE Spec2Model ----
(***************************************************************************)
(* Model of src/src/businessRules.js (validateRules and its helpers).      *)
(* JavaScript strings are sequences of one-character strings, so that the  *)
(* string rewriting of the engine (includes, split, replace, replaceAll)   *)
(* is computed the way the code computes it.                               *)
(***************************************************************************)
EXTENDS Integers, Sequences, FiniteSets, TLC

-----------------------------------------------------------------------------
(* Bounds *)

\* largest array length in the generated documents
MaxLen == 2
\* largest number of rules in one batch
MaxRules == 2
\* largest advance of the wall clock during one rule, in seconds
MaxTick == 2

-----------------------------------------------------------------------------
(* String primitives *)

\* s has p as a substring starting at position i (1-based)
StartsWithAt(s, p, i) ==
  /\ i >= 1
  /\ i + Len(p) - 1 <= Len(s)
  /\ \A j \in 1..Len(p) : s[i + j - 1] = p[j]

\* position of the first occurrence of p in s, 0 when there is none
IndexOf(s, p) ==
  IF \E i \in 1..Len(s) : StartsWithAt(s, p, i)
    THEN CHOOSE i \in 1..Len(s) :
           /\ StartsWithAt(s, p, i)
           /\ \A j \in 1..(i - 1) : ~StartsWithAt(s, p, j)
    ELSE 0

\* String.prototype.includes
Includes(s, p) == IndexOf(s, p) # 0

\* String.prototype.startsWith
StartsWith(s, p) == StartsWithAt(s, p, 1)

\* String.prototype.replace with a string pattern: first occurrence only
Replace(s, p, r) ==
  LET i == IndexOf(s, p)
  IN  IF i = 0 THEN s
      ELSE SubSeq(s, 1, i - 1) \o r \o SubSeq(s, i + Len(p), Len(s))

\* String.prototype.replaceAll with a string pattern
RECURSIVE ReplaceAll(_, _, _)
ReplaceAll(s, p, r) ==
  LET i == IndexOf(s, p)
  IN  IF i = 0 THEN s
      ELSE SubSeq(s, 1, i - 1) \o r
             \o ReplaceAll(SubSeq(s, i + Len(p), Len(s)), p, r)

\* value.split(p)[0]
SplitHead(s, p) ==
  LET i == IndexOf(s, p)
  IN  IF i = 0 THEN s ELSE SubSeq(s, 1, i - 1)

\* 1-based position of the last "." of s, 0 when there is none
\* (lastIndexOf('.') + 1 of the code)
LastDot(s) ==
  IF \E i \in 1..Len(s) : s[i] = "."
    THEN CHOOSE i \in 1..Len(s) :
           s[i] = "." /\ \A j \in (i + 1)..Len(s) : s[j] # "."
    ELSE 0

\* path.split('.')
RECURSIVE SplitDots(_)
SplitDots(s) ==
  LET i == IndexOf(s, <<".">>)
  IN  IF i = 0 THEN <<s>>
      ELSE <<SubSeq(s, 1, i - 1)>> \o SplitDots(SubSeq(s, i + 1, Len(s)))

DigitChars == <<"0", "1", "2", "3", "4", "5", "6", "7", "8", "9">>

\* decimal text of a natural number, as template literals print it
RECURSIVE NumStr(_)
NumStr(n) ==
  IF n < 10 THEN <<DigitChars[n + 1]>>
  ELSE NumStr(n \div 10) \o <<DigitChars[(n % 10) + 1]>>

\* the text a template literal prints for undefined
UndefinedStr == <<"u", "n", "d", "e", "f", "i", "n", "e", "d">>

Marker == <<"[", "]">>

-----------------------------------------------------------------------------
(* JSON values *)

Undefined == [t |-> "undefined"]
Null == [t |-> "null"]
Obj == [t |-> "object"]
Num(k) == [t |-> "number", v |-> k]
Str(s) == [t |-> "string", s |-> s]
Bool(b) == [t |-> "boolean", v |-> b]
\* an array of n elements; scalars lists its elements when they are scalars
ArrNode(n) == [t |-> "array", n |-> n, scalars |-> <<>>]
\* an array of scalars
ListOf(members) == [t |-> "array", n |-> Len(members), scalars |-> members]

\* a key path of one-character keys
Ks(s) == [i \in 1..Len(s) |-> <<s[i]>>]

D(i) == DigitChars[i + 1]

\* length of the inner array w of element i of n: the arrays are ragged
WLen(i, n) == IF n > i THEN n - i ELSE 0

\* the key `_context`
ContextKey == <<"_", "c", "o", "n", "t", "e", "x", "t">>

\* The documents: p has m elements {x: index}, r has n elements {y: index},
\* a.i and b.i are two arrays with the same last segment, n is an array of m
\* elements each holding an array w, each element of w holding an array t;
\* s is the string 'ab', c the string 'Ab', l the array ['Ab', 1], u is
\* null, f is false, and the document has a property named _context of its
\* own, {k: 9}.
DocEntries(m, n) ==
  {<<Ks(<<"k">>), Num(1)>>,
   <<Ks(<<"s">>), Str(<<"a", "b">>)>>,
   <<Ks(<<"s", "0">>), Str(<<"a">>)>>,
   <<Ks(<<"s", "1">>), Str(<<"b">>)>>,
   <<Ks(<<"c">>), Str(<<"A", "b">>)>>,
   <<Ks(<<"l">>), ListOf(<<Str(<<"A", "b">>), Num(1)>>)>>,
   <<Ks(<<"l", "0">>), Str(<<"A", "b">>)>>,
   <<Ks(<<"l", "1">>), Num(1)>>,
   <<Ks(<<"u">>), Null>>,
   <<Ks(<<"f">>), Bool(FALSE)>>,
   <<<<ContextKey>>, Obj>>,
   <<<<ContextKey, <<"k">>>>, Num(9)>>,
   <<Ks(<<"p">>), ArrNode(m)>>,
   <<Ks(<<"r">>), ArrNode(n)>>,
   <<Ks(<<"a">>), Obj>>,
   <<Ks(<<"a", "i">>), ArrNode(m)>>,
   <<Ks(<<"b">>), Obj>>,
   <<Ks(<<"b", "i">>), ArrNode(n)>>,
   <<Ks(<<"n">>), ArrNode(m)>>}
  \cup UNION {{<<Ks(<<"p", D(i)>>), Obj>>,
               <<Ks(<<"p", D(i), "x">>), Num(i)>>,
               <<Ks(<<"a", "i", D(i)>>), Obj>>,
               <<Ks(<<"a", "i", D(i), "x">>), Num(i)>>,
               <<Ks(<<"n", D(i)>>), Obj>>,
               <<Ks(<<"n", D(i), "w">>), ArrNode(WLen(i, n))>>} : i \in 0..(m - 1)}
  \cup UNION {{<<Ks(<<"r", D(j)>>), Obj>>,
               <<Ks(<<"r", D(j), "y">>), Num(j)>>,
               <<Ks(<<"b", "i", D(j)>>), Obj>>,
               <<Ks(<<"b", "i", D(j), "x">>), Num(j)>>} : j \in 0..(n - 1)}
  \cup UNION {{<<Ks(<<"n", D(q[1]), "w", D(q[2])>>), Obj>>,
               <<Ks(<<"n", D(q[1]), "w", D(q[2]), "x">>), Num(q[2])>>,
               <<Ks(<<"n", D(q[1]), "w", D(q[2]), "t">>), ArrNode(1)>>,
               <<Ks(<<"n", D(q[1]), "w", D(q[2]), "t", "0">>), Obj>>,
               <<Ks(<<"n", D(q[1]), "w", D(q[2]), "t", "0", "x">>), Num(q[2])>>} :
                 q \in {qq \in (0..(m - 1)) \X (0..(n - 1)) : qq[2] < WLen(qq[1], n)}}

\* objects and arrays are compared by identity: the node records where it is
WithIdentity(v, kp) ==
  IF v.t \in {"array", "object"} THEN ("at" :> kp) @@ v ELSE v

Doc(m, n) ==
  LET E == DocEntries(m, n)
  IN  [kp \in {e[1] : e \in E} |->
         WithIdentity((CHOOSE e \in E : e[1] = kp)[2], kp)]

Docs == {Doc(m, n) : m \in 0..MaxLen, n \in 0..MaxLen}

\* the side contexts: null (marked by the empty key path), {} and {k: 7}
NoContext == [kp \in {<<>>} |-> Null]
EmptyContext == [kp \in {} |-> Undefined]
SideContext == [kp \in {Ks(<<"k">>)} |-> Num(7)]
IsNullContext(c) == <<>> \in DOMAIN c

\* objectPath.get(obj, path): own properties only, undefined when the walk
\* leaves the object; the empty path returns the object itself
ObjectPathGet(obj, path) ==
  IF Len(path) = 0 THEN Obj
  ELSE IF SplitDots(path) \in DOMAIN obj THEN obj[SplitDots(path)]
  ELSE Undefined

ContextPrefix == <<"_", "c", "o", "n", "t", "e", "x", "t", ".">>

getValueWithContext(documentJson, path, contextObj) ==
  IF StartsWith(path, ContextPrefix) /\ ~IsNullContext(contextObj)
    THEN ObjectPathGet(contextObj, Replace(path, ContextPrefix, <<>>))
    ELSE ObjectPathGet(documentJson, path)

-----------------------------------------------------------------------------
(* testCondition *)

LowerOf(c) ==
  CASE c = "A" -> "a" [] c = "B" -> "b" [] c = "C" -> "c" [] OTHER -> c

\* String.prototype.toLowerCase
toLowerCase(s) == [i \in 1..Len(s) |-> LowerOf(s[i])]

\* lower-casing of an operand: strings only
Lowered(v) == IF v.t = "string" THEN Str(toLowerCase(v.s)) ELSE v

\* String(v) for the scalar operands the conditions use
ScalarText(v) ==
  CASE v.t = "string" -> v.s
    [] v.t = "number" -> NumStr(v.v)
    [] v.t = "null" -> <<"n", "u", "l", "l">>
    [] OTHER -> UndefinedStr

\* Array.prototype.join(',') of an array of scalars
RECURSIVE JoinTexts(_)
JoinTexts(members) ==
  IF Len(members) = 0 THEN <<>>
  ELSE IF Len(members) = 1 THEN ScalarText(members[1])
  ELSE ScalarText(Head(members)) \o <<",">> \o JoinTexts(Tail(members))

\* String(v), the coercion made by String.prototype.includes
ToText(v) == IF v.t = "array" THEN JoinTexts(v.scalars) ELSE ScalarText(v)

\* the value of x.length
HasLength(v) == v.t \in {"array", "string"}
LengthOf(v) == IF v.t = "array" THEN v.n ELSE IF v.t = "string" THEN Len(v.s) ELSE 0

\* x.includes(y): defined on strings and arrays, a TypeError elsewhere
CanInclude(v) == v.t \in {"array", "string"}
IncludesValue(v, y) ==
  IF v.t = "array" THEN \E i \in 1..Len(v.scalars) : v.scalars[i] = y
  ELSE Includes(v.s, ToText(y)) \/ Len(ToText(y)) = 0

\* the relational operators, on numbers (null counts as 0); a comparison
\* with undefined is false
IsNumeric(v) == v.t \in {"number", "null"}
NumOf(v) == IF v.t = "number" THEN v.v ELSE 0
Less(l, r) == IsNumeric(l) /\ IsNumeric(r) /\ NumOf(l) < NumOf(r)
LessEq(l, r) == IsNumeric(l) /\ IsNumeric(r) /\ NumOf(l) <= NumOf(r)

Returns(b) == [threw |-> FALSE, value |-> b]
Throws == [threw |-> TRUE, value |-> FALSE]

SupportedOperators ==
  {"exists", "does_not_exists", "is_empty", "is_not_empty", "=", "<>", "<",
   "<=", ">", ">=", "contains", "does_not_contains", "is_contained", "in",
   "not_in"}

\* lines 375-393, with l and r the operands after lower-casing
CompareOperands(leftValue, l, r, operator) ==
  CASE operator = "is_empty" ->
         IF leftValue.t = "null" THEN Throws
         ELSE Returns(HasLength(leftValue) /\ LengthOf(leftValue) = 0)
    [] operator = "is_not_empty" ->
         IF leftValue.t = "null" THEN Throws
         ELSE Returns(HasLength(leftValue) /\ LengthOf(leftValue) > 0)
    [] operator = "=" -> Returns(l = r)
    [] operator = "<>" -> Returns(l # r)
    [] operator = "<" -> Returns(Less(l, r))
    [] operator = "<=" -> Returns(LessEq(l, r))
    [] operator = ">" -> Returns(Less(r, l))
    [] operator = ">=" -> Returns(LessEq(r, l))
    [] operator = "contains" ->
         IF CanInclude(l) THEN Returns(IncludesValue(l, r)) ELSE Throws
    [] operator = "does_not_contains" ->
         IF CanInclude(l) THEN Returns(~IncludesValue(l, r)) ELSE Throws
    [] operator \in {"is_contained", "in"} ->
         IF CanInclude(r) THEN Returns(IncludesValue(r, l)) ELSE Throws
    [] operator = "not_in" ->
         IF CanInclude(r) THEN Returns(~IncludesValue(r, l)) ELSE Throws
    [] OTHER -> Throws

\* testCondition without the early return of line 374
testConditionUnguarded(leftValue, rightValue, operator) ==
  CASE operator = "exists" -> Returns(leftValue.t # "undefined")
    [] operator = "does_not_exists" -> Returns(leftValue.t = "undefined")
    [] OTHER -> CompareOperands(leftValue, Lowered(leftValue), Lowered(rightValue),
                                operator)

testCondition(leftValue, rightValue, operator) ==
  CASE operator = "exists" -> Returns(leftValue.t # "undefined")
    [] operator = "does_not_exists" -> Returns(leftValue.t = "undefined")
    [] OTHER ->
       IF leftValue.t = "undefined" THEN Returns(FALSE)
       ELSE CompareOperands(leftValue, Lowered(leftValue), Lowered(rightValue),
                            operator)

-----------------------------------------------------------------------------
(* Conditions and loop discovery *)

\* a condition; hasValue / hasRef tell whether comparisonValue /
\* comparisonRef are set (!== undefined)
Cond(ref, operator, hasValue, comparisonValue, hasRef, comparisonRef) ==
  [ref |-> ref, operator |-> operator, hasValue |-> hasValue,
   comparisonValue |-> comparisonValue, hasRef |-> hasRef,
   comparisonRef |-> comparisonRef]

PathFields == <<"ref", "comparisonRef">>

FieldOf(c, f) == IF f = "ref" THEN c.ref ELSE c.comparisonRef

\* condition[field] is truthy
FieldSet(c, f) ==
  IF f = "ref" THEN Len(c.ref) > 0 ELSE c.hasRef /\ Len(c.comparisonRef) > 0

WithField(c, f, v) ==
  IF f = "ref" THEN [c EXCEPT !.ref = v] ELSE [c EXCEPT !.comparisonRef = v]

extractLoopDetails(value) ==
  LET completeObjectPath == SplitHead(value, Marker)
  IN  [objectName |-> SubSeq(completeObjectPath, LastDot(completeObjectPath) + 1,
                             Len(completeObjectPath)),
       completeObjectPath |-> completeObjectPath]

\* `[@k]`
Placeholder(k) == <<"[", "@">> \o NumStr(k) \o <<"]">>

\* lines 127-136: every ref and comparisonRef of the rule that includes
\* `<objectName>[]` gets all its occurrences annotated with ordinal k
AnnotateField(c, f, objectName, k) ==
  IF FieldSet(c, f) /\ Includes(FieldOf(c, f), objectName \o Marker)
    THEN WithField(c, f, ReplaceAll(FieldOf(c, f), objectName \o Marker,
                                    objectName \o Placeholder(k)))
    ELSE c

\* a rewriting that handles only the ref field of the conditions
AnnotateRefOnly(conditions, objectName, k) ==
  [i \in 1..Len(conditions) |-> AnnotateField(conditions[i], "ref", objectName, k)]

AnnotateConditions(conditions, objectName, k) ==
  [i \in 1..Len(conditions) |->
     AnnotateField(AnnotateField(conditions[i], "ref", objectName, k),
                   "comparisonRef", objectName, k)]

\* line 123-125: a descriptor is added unless one has the same path
AddLoop(loops, d) ==
  IF \E i \in 1..Len(loops) : loops[i].completeObjectPath = d.completeObjectPath
    THEN loops
    ELSE Append(loops, [objectName |-> d.objectName,
                        completeObjectPath |-> d.completeObjectPath,
                        parm |-> <<"@">> \o NumStr(Len(loops))])

\* lines 126-138: the rewriting done for a marker once its loop is in loops
\* (the ordinal written is that of the last loop of the list)
AnnotateStep(st, refValue, objectName, loops, k) ==
  [st |-> [conditions |-> AnnotateConditions(st.conditions, objectName, k),
           loops |-> loops],
   refValue |-> Replace(refValue, objectName \o Marker, objectName \o Placeholder(k))]

\* one iteration of the while loop of lines 120-139
ScanStep(st, refValue, d) ==
  AnnotateStep(st, refValue, d.objectName, AddLoop(st.loops, d),
               Len(AddLoop(st.loops, d)) - 1)

\* the while loop of lines 120-139 over one field value
RECURSIVE ScanField(_)
ScanField(w) ==
  IF ~Includes(w.refValue, Marker) THEN w.st
  ELSE ScanField(ScanStep(w.st, w.refValue, extractLoopDetails(w.refValue)))

ScanCondition(st, ci, f) ==
  IF FieldSet(st.conditions[ci], f)
    THEN ScanField([st |-> st, refValue |-> FieldOf(st.conditions[ci], f)])
    ELSE st

RECURSIVE ScanFrom(_, _)
ScanFrom(st, ci) ==
  IF ci > Len(st.conditions) THEN st
  ELSE ScanFrom(ScanCondition(ScanCondition(st, ci, "ref"), ci, "comparisonRef"),
                ci + 1)

\* processConditionsForLoops: the annotated conditions and the loops, in
\* discovery order
processConditionsForLoops(conditions) ==
  ScanFrom([conditions |-> conditions, loops |-> <<>>], 1)

\* collation order of the characters of a path (localeCompare): punctuation,
\* then digits, then letters
Collation ==
  <<"_", ".", "[", "]", "@", "0", "1", "2", "3", "4", "5", "6", "7", "8", "9",
    "a", "b", "c", "d", "e", "f", "g", "h", "i", "j", "k", "l", "m", "n", "o",
    "p", "q", "r", "s", "t", "u", "v", "w", "x", "y", "z">>

Rank(c) == CHOOSE i \in 1..Len(Collation) : Collation[i] = c

\* a.localeCompare(b) < 0
RECURSIVE LocaleLess(_, _)
LocaleLess(a, b) ==
  IF Len(b) = 0 THEN FALSE
  ELSE IF Len(a) = 0 THEN TRUE
  ELSE IF Head(a) = Head(b) THEN LocaleLess(Tail(a), Tail(b))
  ELSE Rank(Head(a)) < Rank(Head(b))

\* stable insertion of x into a sorted list
RECURSIVE InsertLoop(_, _)
InsertLoop(sorted, x) ==
  IF Len(sorted) = 0 THEN <<x>>
  ELSE IF LocaleLess(x.completeObjectPath, Head(sorted).completeObjectPath)
    THEN <<x>> \o sorted
    ELSE <<Head(sorted)>> \o InsertLoop(Tail(sorted), x)

RECURSIVE SortFrom(_, _, _)
SortFrom(loops, i, sorted) ==
  IF i > Len(loops) THEN sorted
  ELSE SortFrom(loops, i + 1, InsertLoop(sorted, loops[i]))

\* sortLoopsByPath: sorts the list in place, so that the list handed to the
\* generator and to the evaluation is the sorted one (line 40)
sortLoopsByPath(loops) == SortFrom(loops, 1, <<>>)

\* validateArrayReferences never blocks; it warns when two loops share a name
DuplicateNames(sortedLoops) ==
  \E i, j \in 1..Len(sortedLoops) :
    i < j /\ sortedLoops[i].objectName = sortedLoops[j].objectName

validateArrayReferences(sortedLoops) == TRUE

-----------------------------------------------------------------------------
(* Context generation *)

MsPerSecond == 1000

\* Date.now() at the leaf check that makes the counter reach count: the
\* clock of a rule stands at clk.now and jumps by clk.dt at leaf clk.jumpAt
ClockAt(clk, count) == IF count >= clk.jumpAt THEN clk.now + clk.dt ELSE clk.now

\* (Date.now() - startTime) / 1000 > timeLimit
TimeExceeded(clk, count) ==
  ClockAt(clk, count) - clk.startTime > clk.timeLimit * MsPerSecond

NewCounter == [count |-> 0, limitReached |-> FALSE, timeReached |-> FALSE]

Tripped(counter) == counter.limitReached \/ counter.timeReached

\* objectPath.get(documentJson, completeObjectPath) ?? [], then its .length
\* as the for loop reads it: a value without a length gives no iteration
loopItemsCount(documentJson, completeObjectPath) ==
  LET v == ObjectPathGet(documentJson, completeObjectPath)
  IN  IF HasLength(v) THEN LengthOf(v) ELSE 0

\* lines 228-236: the remaining loops, their paths rewritten with the literal
\* index of the loop just consumed; the copies carry no parm
newLoops(loops, currentLoop, i) ==
  [q \in 1..Len(loops) |->
     [objectName |-> loops[q].objectName,
      completeObjectPath |->
        Replace(loops[q].completeObjectPath,
                currentLoop.completeObjectPath \o <<"[">> \o currentLoop.parm \o <<"]">>,
                currentLoop.completeObjectPath \o <<".">> \o NumStr(i)),
      parm |-> UndefinedStr]]

\* lines 212-221 and 243-252: the budget checks made before a tuple is
\* emitted; the counter after them
LeafCheck(counter, contextLimit, clk) ==
  IF counter.count + 1 > contextLimit
    THEN [count |-> counter.count + 1, limitReached |-> TRUE,
          timeReached |-> counter.timeReached]
  ELSE IF TimeExceeded(clk, counter.count + 1)
    THEN [count |-> counter.count + 1, limitReached |-> counter.limitReached,
          timeReached |-> TRUE]
  ELSE [count |-> counter.count + 1, limitReached |-> counter.limitReached,
        timeReached |-> counter.timeReached]

\* lines 237-241: the tuples of a nested call are kept unless a budget tripped
Collect(acc, sub) ==
  [tuples |-> IF Tripped(sub.counter) THEN acc.tuples ELSE acc.tuples \o sub.tuples,
   counter |-> sub.counter]

\* a leaf that puts its tuple in front of totalTuples instead of pushing it
EmitFirst(acc, c, tuple) ==
  [tuples |-> IF Tripped(c) THEN acc.tuples ELSE <<tuple>> \o acc.tuples,
   counter |-> c]

\* lines 243-252: the leaf of the for loop with the counter c after the checks
Emit(acc, c, tuple) ==
  [tuples |-> IF Tripped(c) THEN acc.tuples ELSE Append(acc.tuples, tuple),
   counter |-> c]

\* line 212-221: no loop left
EmitSingle(c, currentTuple) ==
  [tuples |-> IF Tripped(c) THEN <<>> ELSE <<currentTuple>>, counter |-> c]

\* the body of explodeContexts with its for loop (lines 225-254) resumed at
\* index i, acc holding totalTuples and the shared counter; a tripped budget
\* ends the loop (the break of lines 226, 246 and 250)
RECURSIVE ExplodeFrom(_, _, _, _, _, _, _)
ExplodeFrom(documentJson, existingLoops, currentTuple, contextLimit, clk, i, acc) ==
  IF Len(existingLoops) = 0
    THEN EmitSingle(LeafCheck(acc.counter, contextLimit, clk), currentTuple)
  ELSE IF i >= loopItemsCount(documentJson, Head(existingLoops).completeObjectPath)
          \/ Tripped(acc.counter)
    THEN acc
  ELSE IF Len(existingLoops) > 1
    THEN ExplodeFrom(documentJson, existingLoops, currentTuple, contextLimit, clk,
                     i + 1,
                     Collect(acc,
                             ExplodeFrom(documentJson,
                                         newLoops(Tail(existingLoops),
                                                  Head(existingLoops), i),
                                         Append(currentTuple, i), contextLimit, clk, 0,
                                         [tuples |-> <<>>, counter |-> acc.counter])))
  ELSE ExplodeFrom(documentJson, existingLoops, currentTuple, contextLimit, clk,
                   i + 1,
                   Emit(acc, LeafCheck(acc.counter, contextLimit, clk),
                        Append(currentTuple, i)))

\* explodeContexts: the tuples returned and the counter it leaves
explodeContexts(documentJson, existingLoops, currentTuple, contextLimit, clk, contextCounter) ==
  ExplodeFrom(documentJson, existingLoops, currentTuple, contextLimit, clk, 0,
              [tuples |-> <<>>, counter |-> contextCounter])

-----------------------------------------------------------------------------
(* The steps of explodeContexts *)

\* the steps of the generation in the order they are made, each with the
\* counter it leaves: "resolve" (line 224, the array of a loop is read),
\* "leaf" (lines 212 and 244, the counter is incremented and the budgets are
\* checked) and "push" (lines 221, 239 and 252, a tuple joins a returned list)
LogEvent(log, kind, counter) == Append(log, [kind |-> kind, counter |-> counter])

PushEvents(n, counter) == [q \in 1..n |-> [kind |-> "push", counter |-> counter]]

\* the for loop that goes on to its last index whatever the counter holds
LoopEndsAtLength(n, i, counter) == i >= n

\* lines 225-226: the for loop ends at the length of the array, or at the
\* iteration that finds a budget tripped
LoopEnds(n, i, counter) == i >= n \/ Tripped(counter)

\* lines 243-252
LeafLogged(acc, c, tuple) ==
  [tuples |-> IF Tripped(c) THEN acc.tuples ELSE Append(acc.tuples, tuple),
   counter |-> c,
   log |-> IF Tripped(c) THEN LogEvent(acc.log, "leaf", c)
           ELSE LogEvent(LogEvent(acc.log, "leaf", c), "push", c)]

\* lines 211-221
SingleLogged(acc, c, currentTuple) ==
  [tuples |-> IF Tripped(c) THEN <<>> ELSE <<currentTuple>>,
   counter |-> c,
   log |-> IF Tripped(c) THEN LogEvent(acc.log, "leaf", c)
           ELSE LogEvent(LogEvent(acc.log, "leaf", c), "push", c)]

\* lines 237-241: the forEach over the tuples of the nested call
CollectLogged(acc, sub) ==
  [tuples |-> IF Tripped(sub.counter) THEN acc.tuples ELSE acc.tuples \o sub.tuples,
   counter |-> sub.counter,
   log |-> IF Tripped(sub.counter) THEN sub.log
           ELSE sub.log \o PushEvents(Len(sub.tuples), sub.counter)]

\* explodeContexts with its steps recorded: ExplodeLog is the for loop resumed
\* at index i, explodeContextsLogged the call
RECURSIVE ExplodeLog(_, _, _, _, _, _, _)
RECURSIVE explodeContextsLogged(_, _, _, _, _, _, _)
ExplodeLog(documentJson, existingLoops, currentTuple, contextLimit, clk, i, acc) ==
  IF Len(existingLoops) = 0
    THEN SingleLogged(acc, LeafCheck(acc.counter, contextLimit, clk), currentTuple)
  ELSE IF LoopEnds(loopItemsCount(documentJson, Head(existingLoops).completeObjectPath),
                   i, acc.counter)
    THEN acc
  ELSE IF Len(existingLoops) > 1
    THEN ExplodeLog(documentJson, existingLoops, currentTuple, contextLimit, clk,
                    i + 1,
                    CollectLogged(acc,
                                  explodeContextsLogged(documentJson,
                                                        newLoops(Tail(existingLoops),
                                                                 Head(existingLoops), i),
                                                        Append(currentTuple, i),
                                                        contextLimit, clk, acc.counter,
                                                        acc.log)))
  ELSE ExplodeLog(documentJson, existingLoops, currentTuple, contextLimit, clk,
                  i + 1,
                  LeafLogged(acc, LeafCheck(acc.counter, contextLimit, clk),
                             Append(currentTuple, i)))

explodeContextsLogged(documentJson, existingLoops, currentTuple, contextLimit, clk, contextCounter, log) ==
  ExplodeLog(documentJson, existingLoops, currentTuple, contextLimit, clk, 0,
             [tuples |-> <<>>, counter |-> contextCounter,
              log |-> IF Len(existingLoops) > 0
                        THEN LogEvent(log, "resolve", contextCounter)
                        ELSE log])

-----------------------------------------------------------------------------
(* Evaluation *)

\* lines 274-281 and 325-332: the test of the two resolved operands
TestOperands(leftValue, rightValue, t) ==
  [threw |-> t.threw, test |-> t.value, leftValue |-> leftValue,
   rightValue |-> rightValue]

ResolveAndTest(leftValue, rightValue, operator) ==
  TestOperands(leftValue, rightValue, testCondition(leftValue, rightValue, operator))

\* the body of the try of lines 271-281 and 322-332: one condition evaluated
evaluateCondition(documentJson, condition, contextObj) ==
  IF condition.hasValue /\ condition.hasRef
    THEN [threw |-> TRUE, test |-> FALSE, leftValue |-> Undefined,
          rightValue |-> Undefined]
    ELSE ResolveAndTest(getValueWithContext(documentJson, condition.ref, contextObj),
                        IF condition.hasRef
                          THEN getValueWithContext(documentJson,
                                                   condition.comparisonRef, contextObj)
                          ELSE condition.comparisonValue,
                        condition.operator)

ConditionDetail(condition, e) ==
  [instancePath |-> condition.ref, instancePathValue |-> e.leftValue,
   operator |-> condition.operator, comparisonValue |-> e.rightValue]

\* the accumulator of the reduce after condition number ci was evaluated to e
Accumulate(acc, condition, ci, e) ==
  [threw |-> e.threw,
   result |-> ~e.threw /\ e.test,
   conditionValues |-> IF ~e.threw /\ e.test
                         THEN Append(acc.conditionValues, ConditionDetail(condition, e))
                         ELSE acc.conditionValues,
   evaluated |-> Append(acc.evaluated, ci)]

\* the reduce of lines 266-299 and 318-351 from condition ci on: conditions
\* are evaluated while the conjunction holds; an error ends the evaluation
RECURSIVE ReduceConditions(_, _, _, _, _)
ReduceConditions(documentJson, conditions, contextObj, ci, acc) ==
  IF ci > Len(conditions) \/ acc.threw THEN acc
  ELSE IF ~acc.result
    THEN ReduceConditions(documentJson, conditions, contextObj, ci + 1, acc)
  ELSE ReduceConditions(documentJson, conditions, contextObj, ci + 1,
                        Accumulate(acc, conditions[ci], ci,
                                   evaluateCondition(documentJson, conditions[ci],
                                                     contextObj)))

ReduceStart == [threw |-> FALSE, result |-> TRUE, conditionValues |-> <<>>,
                evaluated |-> <<>>]

\* the {response, items} of evaluateSimpleConditions from the final
\* accumulator of its reduce
SimpleResult(r) == [threw |-> r.threw, response |-> r.result, items |-> r.conditionValues]

\* evaluateSimpleConditions: {response, items}, or an error
evaluateSimpleConditions(documentJson, conditions, contextObj) ==
  SimpleResult(ReduceConditions(documentJson, conditions, contextObj, 1, ReduceStart))

\* replaceContextValues: the placeholder of ordinal loopIndex is replaced by
\* the index the tuple holds at position loopIndex
RECURSIVE ReplaceFrom(_, _, _, _)
ReplaceFrom(path, nLoops, context, loopIndex) ==
  IF loopIndex >= nLoops THEN path
  ELSE ReplaceFrom(ReplaceAll(path, Placeholder(loopIndex),
                              <<".">> \o NumStr(context[loopIndex + 1])),
                   nLoops, context, loopIndex + 1)

replaceContextValues(condition, loops, context) ==
  [condition EXCEPT
     !.ref = ReplaceFrom(condition.ref, Len(loops), context, 0),
     !.comparisonRef = IF FieldSet(condition, "comparisonRef")
                         THEN ReplaceFrom(condition.comparisonRef, Len(loops), context, 0)
                         ELSE condition.comparisonRef]

\* the results after one context when the loop never returns early
AfterContextNoStop(acc, context, evaluation) ==
  [threw |-> evaluation.threw,
   results |-> IF ~evaluation.threw /\ evaluation.result
                 THEN Append(acc.results,
                             [result |-> TRUE,
                              conditionValues |-> evaluation.conditionValues])
                 ELSE acc.results,
   visited |-> Append(acc.visited, context),
   stop |-> FALSE]

\* lines 353-358: the results after the evaluation of one context
AfterContext(acc, context, evaluation) ==
  [threw |-> evaluation.threw,
   results |-> IF ~evaluation.threw /\ evaluation.result
                 THEN Append(acc.results,
                             [result |-> TRUE,
                              conditionValues |-> evaluation.conditionValues])
                 ELSE acc.results,
   visited |-> Append(acc.visited, context),
   stop |-> ~evaluation.threw /\ evaluation.result]

\* lines 314-351: the conditions instantiated and evaluated in one context
EvaluateContext(documentJson, conditions, loops, context, contextObj) ==
  ReduceConditions(documentJson,
                   [ci \in 1..Len(conditions) |->
                      replaceContextValues(conditions[ci], loops, context)],
                   contextObj, 1, ReduceStart)

\* evaluateConditionsInContexts from context number k on: the records of the
\* passing contexts, and the contexts in which the conditions were evaluated
RECURSIVE EvaluateFrom(_, _, _, _, _, _, _, _)
EvaluateFrom(documentJson, conditions, loops, contexts, contextObj, returnAllContexts, k, acc) ==
  IF k > Len(contexts) \/ acc.threw \/ (acc.stop /\ ~returnAllContexts) THEN acc
  ELSE EvaluateFrom(documentJson, conditions, loops, contexts, contextObj,
                    returnAllContexts, k + 1,
                    AfterContext(acc, contexts[k],
                                 EvaluateContext(documentJson, conditions, loops,
                                                 contexts[k], contextObj)))

evaluateConditionsInContexts(documentJson, conditions, loops, contexts, contextObj, returnAllContexts) ==
  EvaluateFrom(documentJson, conditions, loops, contexts, contextObj,
               returnAllContexts, 1,
               [threw |-> FALSE, results |-> <<>>, visited |-> <<>>, stop |-> FALSE])

-----------------------------------------------------------------------------
(* Result entries and the processing of one rule *)

\* a result entry; hasErrors tells whether the entry has an errors field
Entry(id, keyword, hasErrors, errors, conditions) ==
  [id |-> id, keyword |-> keyword, hasErrors |-> hasErrors, errors |-> errors,
   conditions |-> conditions]

\* addRuleToResults: the entries it pushes
addRuleToResults(rule, conditionResultContext, hasConditionsResult, conditionsResult) ==
  IF Len(conditionResultContext) > 0
    THEN <<Entry(rule.id, "conditional", FALSE, <<>>, conditionResultContext)>>
  ELSE IF hasConditionsResult /\ conditionsResult.response
          /\ Len(conditionsResult.items) > 0
    THEN <<Entry(rule.id, "conditional", FALSE, <<>>,
                 <<[result |-> TRUE, conditionValues |-> conditionsResult.items]>>)>>
  ELSE <<>>

\* lines 57-68: the diagnostic entry of a tripped budget
LimitEntries(rule, counter) ==
  IF counter.limitReached \/ counter.timeReached
    THEN <<Entry(rule.id, "context_limit", TRUE,
                 (IF counter.limitReached THEN <<"Context limit reached">> ELSE <<>>)
                 \o (IF counter.timeReached THEN <<"Time limit reached">> ELSE <<>>),
                 <<>>)>>
    ELSE <<>>

\* lines 69-84: the entry pushed when the processing of the rule raised
ErrorEntries(rule) ==
  <<Entry(rule.id, "conditional", TRUE, <<"error">>, <<>>)>>

\* lines 49-53: the evaluation, direct when no context was generated
Evaluation(documentJson, conditions, loops, contexts, contextObj, returnAllContexts) ==
  IF Len(contexts) = 0
    THEN [direct |-> TRUE,
          simple |-> evaluateSimpleConditions(documentJson, conditions, contextObj),
          inContexts |-> [threw |-> FALSE, results |-> <<>>, visited |-> <<>>,
                          stop |-> FALSE]]
    ELSE [direct |-> FALSE,
          simple |-> [threw |-> FALSE, response |-> FALSE, items |-> <<>>],
          inContexts |-> evaluateConditionsInContexts(documentJson, conditions, loops,
                                                      contexts, contextObj,
                                                      returnAllContexts)]

\* lines 55-84: the entries of the rule, from what was computed for it
Outcome(rule, d, loops, ex, ev) ==
  [id |-> rule.id,
   source |-> rule.conditions,
   conditions |-> d.conditions,
   discovered |-> d.loops,
   loops |-> loops,
   warned |-> DuplicateNames(loops),
   contexts |-> ex.tuples,
   counter |-> ex.counter,
   direct |-> ev.direct,
   visited |-> ev.inContexts.visited,
   threw |-> ev.simple.threw \/ ev.inContexts.threw,
   entries |->
     IF ev.simple.threw \/ ev.inContexts.threw THEN ErrorEntries(rule)
     ELSE addRuleToResults(rule, ev.inContexts.results, ev.direct, ev.simple)
          \o LimitEntries(rule, ex.counter)]

\* lines 45-53
Evaluated(documentJson, rule, contextObj, returnAllContexts, d, loops, ex) ==
  Outcome(rule, d, loops, ex,
          Evaluation(documentJson, d.conditions, loops, ex.tuples, contextObj,
                     returnAllContexts))

\* lines 40-47
Exploded(documentJson, rule, contextObj, contextLimit, returnAllContexts, clk, d, loops) ==
  Evaluated(documentJson, rule, contextObj, returnAllContexts, d, loops,
            explodeContexts(documentJson, loops, <<>>, contextLimit, clk, NewCounter))

\* lines 38-40
Discovered(documentJson, rule, contextObj, contextLimit, returnAllContexts, clk, d) ==
  Exploded(documentJson, rule, contextObj, contextLimit, returnAllContexts, clk, d,
           sortLoopsByPath(d.loops))

\* the body of the forEach callback (lines 34-84) for one rule: what it
\* computes and the entries it pushes
validateRule(documentJson, rule, contextObj, contextLimit, returnAllContexts, clk) ==
  Discovered(documentJson, rule, contextObj, contextLimit, returnAllContexts, clk,
             processConditionsForLoops(rule.conditions))

-----------------------------------------------------------------------------
(* Inputs *)

NoDate == [set |-> FALSE, at |-> 0]
DateAt(t) == [set |-> TRUE, at |-> t]

Rule(conditions, initialDate, endDate) ==
  [id |-> 0, conditions |-> conditions, initialDate |-> initialDate,
   endDate |-> endDate]

\* the source paths of the conditions
PathK == <<"k">>
PathZ == <<"z">>
PathCtxK == <<"_", "c", "o", "n", "t", "e", "x", "t", ".", "k">>
PathPX == <<"p", "[", "]", ".", "x">>
PathRY == <<"r", "[", "]", ".", "y">>
PathAIX == <<"a", ".", "i", "[", "]", ".", "x">>
PathBIX == <<"b", ".", "i", "[", "]", ".", "x">>
PathNWX == <<"n", "[", "]", ".", "w", "[", "]", ".", "x">>
PathNWTX == <<"n", "[", "]", ".", "w", "[", "]", ".", "t", "[", "]", ".", "x">>
\* paths that traverse, as arrays, a string, a number, null, false, an
\* object and an absent property
PathSX == <<"s", "[", "]", ".", "x">>
PathKX == <<"k", "[", "]", ".", "x">>
PathUX == <<"u", "[", "]", ".", "x">>
PathFX == <<"f", "[", "]", ".", "x">>
PathAX == <<"a", "[", "]", ".", "x">>
PathZX == <<"z", "[", "]", ".", "x">>
\* the members of the array l themselves
PathLEach == <<"l", "[", "]">>

WithValue(ref, operator, v) == Cond(ref, operator, TRUE, v, FALSE, <<>>)
WithRef(ref, operator, cref) == Cond(ref, operator, FALSE, Undefined, TRUE, cref)
Unary(ref, operator) == Cond(ref, operator, FALSE, Undefined, FALSE, <<>>)
Conflicting(ref, operator, v, cref) == Cond(ref, operator, TRUE, v, TRUE, cref)

\* conditions without array traversal
FlatConditions ==
  {WithValue(PathK, "=", Num(1)),
   WithValue(PathK, "=", Num(2)),
   Unary(PathZ, "does_not_exists"),
   WithValue(PathZ, "matches", Num(1)),
   WithValue(PathK, "matches", Num(1)),
   Conflicting(PathK, "=", Num(1), PathK),
   WithValue(PathCtxK, "=", Num(7)),
   WithValue(PathCtxK, "=", Num(9))}

\* conditions traversing arrays
LoopConditions ==
  {WithValue(PathPX, "=", Num(0)),
   WithValue(PathPX, "=", Num(1)),
   Unary(PathPX, "does_not_exists"),
   WithRef(PathPX, "=", PathRY),
   WithRef(PathRY, "=", PathPX),
   WithRef(PathAIX, "=", PathBIX),
   WithRef(PathPX, "=", PathPX),
   WithValue(PathNWX, ">=", Num(0)),
   WithValue(PathNWTX, ">=", Num(0)),
   WithRef(PathAIX, "<=", PathNWX),
   WithRef(PathNWX, ">=", PathPX),
   WithRef(PathPX, "matches", PathRY),
   Conflicting(PathPX, "=", Num(0), PathRY),
   Unary(PathSX, "does_not_exists"),
   Unary(PathKX, "does_not_exists"),
   Unary(PathUX, "does_not_exists"),
   Unary(PathFX, "does_not_exists"),
   Unary(PathAX, "does_not_exists"),
   Unary(PathZX, "does_not_exists"),
   WithValue(PathLEach, "contains", Str(<<"a">>))}

\* second conditions of the two-condition rules
SecondConditions ==
  {WithValue(PathK, "=", Num(1)),
   Conflicting(PathK, "=", Num(1), PathK),
   WithValue(PathK, "matches", Num(1)),
   WithValue(PathPX, "<=", Num(1)),
   WithRef(PathRY, "=", PathPX)}

FirstConditions ==
  {WithValue(PathK, "=", Num(1)),
   WithValue(PathK, "=", Num(2)),
   WithValue(PathPX, "=", Num(0))}

ConditionLists ==
  {<<c>> : c \in FlatConditions \cup LoopConditions}
  \cup {<<c, d>> : c \in FirstConditions, d \in SecondConditions}
  \cup {<<Conflicting(PathK, "=", Num(1), PathK), WithValue(PathK, "=", Num(2))>>}

\* the clock when validateRules is called
CallTime == 5000

RuleSet ==
  {Rule(cs, NoDate, NoDate) : cs \in ConditionLists}
  \cup {Rule(<<WithValue(PathK, "=", Num(1))>>, DateAt(CallTime), NoDate),
        Rule(<<WithValue(PathK, "=", Num(1))>>, DateAt(CallTime + 1), NoDate),
        Rule(<<WithValue(PathK, "=", Num(1))>>, NoDate, DateAt(CallTime)),
        Rule(<<WithValue(PathK, "=", Num(1))>>, NoDate, DateAt(CallTime - 1))}

\* the rules of the batches of more than one rule
BatchRuleSet ==
  {Rule(<<c>>, NoDate, NoDate) :
     c \in {WithValue(PathK, "=", Num(1)),
            WithValue(PathK, "matches", Num(1)),
            WithRef(PathPX, "=", PathRY)}}
  \cup {Rule(<<WithValue(PathK, "=", Num(1))>>, NoDate, DateAt(CallTime - 1))}

\* the rules of the batches that exercise the date filter: validity bounds
\* before, at and after the time of the call
DateRuleSet ==
  {Rule(<<WithValue(PathK, "=", Num(1))>>, i, e) :
     i \in {NoDate}, e \in {NoDate, DateAt(CallTime), DateAt(CallTime - 1)}}
  \cup {Rule(<<WithValue(PathK, "=", Num(1))>>, i, e) :
          i \in {DateAt(CallTime), DateAt(CallTime + 1)}, e \in {NoDate}}
  \cup {Rule(<<WithValue(PathK, "=", Num(1))>>, DateAt(CallTime - 1),
              DateAt(CallTime + 1)),
        Rule(<<Conflicting(PathK, "=", Num(1), PathK)>>, DateAt(CallTime + 1), NoDate),
        Rule(<<WithValue(PathPX, "=", Num(0))>>, NoDate, DateAt(CallTime - 1))}

\* the operands of the rules that exercise testCondition
PathC == <<"c">>
PathS == <<"s">>
PathL == <<"l">>

AllOperators == SupportedOperators \cup {"matches"}

\* the operators applied to present left operands (the relational operators
\* are applied to numbers only)
PlainOperators ==
  {"exists", "does_not_exists", "is_empty", "is_not_empty", "=", "<>",
   "contains", "does_not_contains", "is_contained", "in", "not_in", "matches"}

RightValues ==
  {Num(1), Str(<<"A", "b">>), Str(<<"a", "b">>), Null,
   ListOf(<<Str(<<"A", "b">>), Num(1)>>)}

RightRefs == {PathL, PathZ}

OperandConditions(refs, operators) ==
  {WithValue(ref, operator, v) : ref \in refs, operator \in operators, v \in RightValues}
  \cup {WithRef(ref, operator, cref) : ref \in refs, operator \in operators,
                                        cref \in RightRefs}

OperandRuleSet ==
  {Rule(<<c>>, NoDate, NoDate) :
     c \in OperandConditions({PathZ}, AllOperators)
            \cup OperandConditions({PathK, PathC, PathS, PathL}, PlainOperators)
            \cup {WithValue(PathK, operator, Num(1)) : operator \in AllOperators}}

\* an option left out of the options object
NoOption == -1

DefaultContextLimit == 10000
DefaultTimeLimit == 200

Options(contextLimit, timeLimit, returnAllContexts) ==
  [contextLimit |-> contextLimit, timeLimit |-> timeLimit,
   returnAllContexts |-> returnAllContexts]

\* the side context and the options of a call
CallArgs(c, o) == [contextObj |-> c, options |-> o]

CallSet ==
  {CallArgs(NoContext, Options(NoOption, NoOption, NoOption)),
   CallArgs(SideContext, Options(NoOption, NoOption, NoOption)),
   CallArgs(EmptyContext, Options(NoOption, NoOption, NoOption)),
   CallArgs(NoContext, Options(0, NoOption, NoOption)),
   CallArgs(NoContext, Options(1, NoOption, NoOption)),
   CallArgs(NoContext, Options(2, NoOption, NoOption)),
   CallArgs(NoContext, Options(3, NoOption, NoOption)),
   CallArgs(NoContext, Options(3, NoOption, 0)),
   CallArgs(NoContext, Options(NoOption, 1, NoOption)),
   CallArgs(NoContext, Options(3, 1, 1))}

BatchCallSet ==
  {CallArgs(NoContext, Options(NoOption, NoOption, NoOption)),
   CallArgs(NoContext, Options(3, NoOption, NoOption)),
   CallArgs(NoContext, Options(NoOption, 1, NoOption))}

\* the batches of at most n rules of a rule set; a rule's id is its position
Batches(ruleSet, n) ==
  UNION {{[i \in 1..k |-> [f[i] EXCEPT !.id = i]] : f \in [1..k -> ruleSet]} : k \in 0..n}

-----------------------------------------------------------------------------
(* validateRules as a state machine *)

VARIABLES
  documentJson,   \* the document
  rules,          \* the caller's rules
  contextObj,     \* the side context
  options,        \* the options object
  now,            \* the wall clock
  pc,             \* "idle", "running" or "returned"
  rulesObj,       \* the working copy of the rules that passed the date filter
  startTime,      \* the start time of the call
  ruleIndex,      \* position in rulesObj of the next rule to process
  results,        \* the result list
  last,           \* what the processing of the last rule computed
  emitted         \* what each processed rule pushed, in order

vars == <<documentJson, rules, contextObj, options, now, pc, rulesObj, startTime,
          ruleIndex, results, last, emitted>>

inputs == <<documentJson, rules, contextObj, options>>

\* lines 26-28
contextLimitOf(o) ==
  IF o.contextLimit # NoOption THEN o.contextLimit ELSE DefaultContextLimit
timeLimitOf(o) == IF o.timeLimit # NoOption THEN o.timeLimit ELSE DefaultTimeLimit
returnAllContextsOf(o) ==
  IF o.returnAllContexts # NoOption THEN o.returnAllContexts # 0 ELSE TRUE

\* the predicate with both bounds exclusive
ActiveAtStrict(rule, t) ==
  /\ (IF rule.initialDate.set THEN rule.initialDate.at < t ELSE TRUE)
  /\ (IF rule.endDate.set THEN rule.endDate.at > t ELSE TRUE)

\* the rule's predicate of filterRulesByDate at clock t
ActiveAt(rule, t) ==
  /\ (IF rule.initialDate.set THEN rule.initialDate.at <= t ELSE TRUE)
  /\ (IF rule.endDate.set THEN rule.endDate.at >= t ELSE TRUE)

filterRulesByDate(rs, t) == SelectSeq(rs, LAMBDA rule : ActiveAt(rule, t))

NoRule == validateRule(Doc(0, 0), [id |-> 0, conditions |-> <<>>], NoContext, 0, TRUE,
                       [now |-> 0, startTime |-> 0, jumpAt |-> 1, dt |-> 0,
                        timeLimit |-> 0])

InitWith(batches, docs, calls) ==
  /\ documentJson \in docs
  /\ rules \in batches
  /\ \E c \in calls : contextObj = c.contextObj /\ options = c.options
  /\ now = CallTime
  /\ pc = "idle"
  /\ rulesObj = <<>>
  /\ startTime = 0
  /\ ruleIndex = 1
  /\ results = <<>>
  /\ last = NoRule
  /\ emitted = <<>>

\* a call with one rule
Init == InitWith(Batches(RuleSet, 1), Docs, CallSet)

\* a call with a batch of rules
InitBatch == InitWith(Batches(BatchRuleSet, MaxRules), {Doc(MaxLen, MaxLen)}, BatchCallSet)

\* a call with one rule of one condition, over every operator and operand
InitOperands ==
  InitWith(Batches(OperandRuleSet, 1), {Doc(MaxLen, MaxLen)},
           {CallArgs(NoContext, Options(NoOption, NoOption, NoOption))})

\* a call with a batch of rules with validity dates, under a context limit
\* of one
InitDates ==
  InitWith(Batches(DateRuleSet, MaxRules), {Doc(MaxLen, MaxLen)},
           {CallArgs(NoContext, Options(1, NoOption, NoOption))})

\* lines 25-31: the working copy, the date filter and the start time
Call ==
  /\ pc = "idle"
  /\ pc' = "running"
  /\ rulesObj' = filterRulesByDate(rules, now)
  /\ startTime' = now
  /\ UNCHANGED <<inputs, now, ruleIndex, results, last, emitted>>

\* the readings of the clock during the processing of one rule: it advances
\* by dt seconds when the generation reaches its leaf number jumpAt
RuleClock(dt, jumpAt) ==
  [now |-> now, startTime |-> startTime, jumpAt |-> jumpAt,
   dt |-> dt * MsPerSecond, timeLimit |-> timeLimitOf(options)]

\* what an iteration records of the rule it processed
Record(o, clk) ==
  [id |-> o.id, threw |-> o.threw, entries |-> o.entries, counter |-> o.counter,
   clk |-> clk]

\* an iteration without the try/catch of lines 34 and 69: the error of a
\* rule ends the call
ProcessRuleUncaught(dt, jumpAt) ==
  /\ pc = "running"
  /\ ruleIndex <= Len(rulesObj)
  /\ last' = validateRule(documentJson, rulesObj[ruleIndex], contextObj,
                          contextLimitOf(options), returnAllContextsOf(options),
                          RuleClock(dt, jumpAt))
  /\ IF last'.threw
       THEN pc' = "returned" /\ UNCHANGED <<results, emitted>>
       ELSE /\ pc' = pc
            /\ results' = results \o last'.entries
            /\ emitted' = Append(emitted, Record(last', RuleClock(dt, jumpAt)))
  /\ rulesObj' = [rulesObj EXCEPT ![ruleIndex].conditions = last'.conditions]
  /\ now' = now + dt * MsPerSecond
  /\ ruleIndex' = ruleIndex + 1
  /\ UNCHANGED <<inputs, startTime>>

\* an iteration when the working copy of line 25 is not a copy: what is
\* written to the rule is written to the caller's rule
ProcessRuleInPlace(dt, jumpAt) ==
  /\ pc = "running"
  /\ ruleIndex <= Len(rulesObj)
  /\ last' = validateRule(documentJson, rulesObj[ruleIndex], contextObj,
                          contextLimitOf(options), returnAllContextsOf(options),
                          RuleClock(dt, jumpAt))
  /\ results' = results \o last'.entries
  /\ emitted' = Append(emitted, Record(last', RuleClock(dt, jumpAt)))
  /\ rulesObj' = [rulesObj EXCEPT ![ruleIndex].conditions = last'.conditions]
  /\ rules' = [rules EXCEPT ![last'.id].conditions = last'.conditions]
  /\ now' = now + dt * MsPerSecond
  /\ ruleIndex' = ruleIndex + 1
  /\ UNCHANGED <<documentJson, contextObj, options, pc, startTime>>

\* an iteration that puts the entries of its rule in front of the results
ProcessRuleUnshift(dt, jumpAt) ==
  /\ pc = "running"
  /\ ruleIndex <= Len(rulesObj)
  /\ last' = validateRule(documentJson, rulesObj[ruleIndex], contextObj,
                          contextLimitOf(options), returnAllContextsOf(options),
                          RuleClock(dt, jumpAt))
  /\ results' = last'.entries \o results
  /\ emitted' = Append(emitted, Record(last', RuleClock(dt, jumpAt)))
  /\ rulesObj' = [rulesObj EXCEPT ![ruleIndex].conditions = last'.conditions]
  /\ now' = now + dt * MsPerSecond
  /\ ruleIndex' = ruleIndex + 1
  /\ UNCHANGED <<inputs, pc, startTime>>

\* one iteration of the forEach of line 33
ProcessRule(dt, jumpAt) ==
  /\ pc = "running"
  /\ ruleIndex <= Len(rulesObj)
  /\ last' = validateRule(documentJson, rulesObj[ruleIndex], contextObj,
                          contextLimitOf(options), returnAllContextsOf(options),
                          RuleClock(dt, jumpAt))
  /\ results' = results \o last'.entries
  /\ emitted' = Append(emitted, Record(last', RuleClock(dt, jumpAt)))
  /\ rulesObj' = [rulesObj EXCEPT ![ruleIndex].conditions = last'.conditions]
  /\ now' = now + dt * MsPerSecond
  /\ ruleIndex' = ruleIndex + 1
  /\ UNCHANGED <<inputs, pc, startTime>>

\* line 87
Return ==
  /\ pc = "running"
  /\ ruleIndex > Len(rulesObj)
  /\ pc' = "returned"
  /\ UNCHANGED <<inputs, now, rulesObj, startTime, ruleIndex, results, last, emitted>>

\* the clock either stands still during a rule or jumps by MaxTick seconds,
\* before the first leaf check of the generation or before the second
Step ==
  \E dt \in {0, MaxTick} :
    \E jumpAt \in (IF dt = 0 THEN {1} ELSE {1, 2}) : ProcessRule(dt, jumpAt)

Next == Call \/ Step \/ Return

Spec == Init /\ [][Next]_vars

SpecBatch == InitBatch /\ [][Next]_vars

SpecOperands == InitOperands /\ [][Next]_vars

SpecDates == InitDates /\ [][Next]_vars

-----------------------------------------------------------------------------
(* Properties of validateRules *)

\* a rule has been processed: last holds what was computed for it
Processed == ruleIndex > 1

ErrorFree(e) == e.keyword = "conditional" /\ ~e.hasErrors

\* the entries hold an error-free 'conditional' entry
ReportedSatisfied(entries) == \E i \in 1..Len(entries) : ErrorFree(entries[i])

\* positions of the entries with a populated errors array
WithErrors(entries) ==
  {i \in 1..Len(entries) : entries[i].hasErrors /\ Len(entries[i].errors) > 0}

\* the path fields of a condition list that traverse an array
MarkerFields(conditions) ==
  {cf \in (1..Len(conditions)) \X {"ref", "comparisonRef"} :
     /\ FieldSet(conditions[cf[1]], cf[2])
     /\ Includes(FieldOf(conditions[cf[1]], cf[2]), Marker)}

HasMarker(conditions) == MarkerFields(conditions) # {}

\* the path up to the first marker
ArrayPath(path) == SplitHead(path, Marker)

\* the path traverses exactly one array
SingleMarker(path) ==
  /\ Includes(path, Marker)
  /\ ~Includes(SubSeq(path, IndexOf(path, Marker) + Len(Marker), Len(path)), Marker)

\* every array-traversing field traverses exactly one array
AllSingle(conditions) ==
  \A cf \in MarkerFields(conditions) : SingleMarker(FieldOf(conditions[cf[1]], cf[2]))

\* the array paths a condition list traverses
ArrayPaths(conditions) ==
  {ArrayPath(FieldOf(conditions[cf[1]], cf[2])) : cf \in MarkerFields(conditions)}

\* the conjunction of an evaluated condition list passed
ConjunctionPasses(r) == ~r.threw /\ r.result

PassesDirectly(conditions) ==
  ConjunctionPasses(ReduceConditions(documentJson, conditions, contextObj, 1,
                                     ReduceStart))

PassesIn(context) ==
  ConjunctionPasses(EvaluateContext(documentJson, last.conditions, last.loops,
                                    context, contextObj))

\* a path with the placeholder of every loop replaced by the index the tuple
\* t holds for that loop
RECURSIVE BindFrom(_, _, _, _)
BindFrom(path, loops, t, j) ==
  IF j > Len(loops) THEN path
  ELSE BindFrom(ReplaceAll(path, <<"[">> \o loops[j].parm \o <<"]">>,
                           <<".">> \o NumStr(t[j])),
                loops, t, j + 1)

\* every index of t is valid for the array of its loop under the indices t
\* holds for the other loops
ValidTuple(loops, t) ==
  \A j \in 1..Len(loops) :
    t[j] < loopItemsCount(documentJson,
                          BindFrom(loops[j].completeObjectPath, loops, t, 1))

\* the index combinations of a loop list over the document
IndexTuples(loops) ==
  {t \in [1..Len(loops) -> 0..(MaxLen - 1)] : ValidTuple(loops, t)}

TupleSet(contexts) == {contexts[k] : k \in 1..Len(contexts)}

Pairs(m, n) == {<<i, j>> : i \in 0..(m - 1), j \in 0..(n - 1)}

LimitReported(entries) ==
  \E i \in 1..Len(entries) :
    /\ entries[i].keyword = "context_limit"
    /\ \E q \in 1..Len(entries[i].errors) :
         entries[i].errors[q] = "Context limit reached"

\* C1: a rule that passes the date filter and raises no error gets an
\* error-free 'conditional' entry if and only if it has no array traversal
\* marker and every condition passes, or it has loops and the conjunction of
\* its conditions passes in at least one generated context tuple; a rule
\* with loops and zero generated tuples is not reported as satisfied.
C1_SatisfiedIffPasses ==
  (Processed /\ ~last.threw) =>
    (ReportedSatisfied(last.entries) <=>
       IF HasMarker(last.source)
         THEN \E k \in 1..Len(last.contexts) : PassesIn(last.contexts[k])
         ELSE PassesDirectly(last.source))

\* the entries the rule of a record produces when it is evaluated alone,
\* under the same readings of the clock
AloneEntries(e) ==
  validateRule(documentJson, rules[e.id], contextObj, contextLimitOf(options),
               returnAllContextsOf(options), e.clk).entries

RECURSIVE EntriesOf(_)
EntriesOf(records) ==
  IF Len(records) = 0 THEN <<>> ELSE Head(records).entries \o EntriesOf(Tail(records))

HasConflict(conditions) ==
  \E ci \in 1..Len(conditions) : conditions[ci].hasValue /\ conditions[ci].hasRef

\* C3: for a rule that passes the date filter and holds a condition with
\* both comparisonValue and comparisonRef set, at any position and whatever
\* the other conditions evaluate to, the results hold an entry of the rule
\* with a populated errors array.
C3_ConflictAlwaysReported ==
  (Processed /\ HasConflict(last.source)) => WithErrors(last.entries) # {}

\* C4: evaluating a condition whose operator is not supported fails for
\* every value of the operands, present or absent, and the rule is reported
\* with exactly one entry, which carries an errors array (stated for the
\* first condition of a rule, which is always evaluated).
C4_UnsupportedOperatorFails ==
  (Processed /\ last.source[1].operator \notin SupportedOperators) =>
    /\ last.threw
    /\ Len(last.entries) = 1
    /\ WithErrors(last.entries) = {1}

\* the tuples are the pairs of indices of two arrays of paths A and B
CoversPairs(contexts, A, B) ==
  /\ Len(contexts) = loopItemsCount(documentJson, A) * loopItemsCount(documentJson, B)
  /\ TupleSet(contexts) = Pairs(loopItemsCount(documentJson, A),
                                loopItemsCount(documentJson, B))

\* C5: when a rule references two distinct independent arrays of lengths m
\* and n and no budget is exceeded, m*n distinct tuples are generated, one
\* per pair (i, j), and the conditions are evaluated once in each of them.
C5_TwoArraysProduct ==
  (/\ Processed
   /\ AllSingle(last.source)
   /\ Cardinality(ArrayPaths(last.source)) = 2
   /\ ~Tripped(last.counter)) =>
    /\ \E A \in ArrayPaths(last.source) :
         \E B \in ArrayPaths(last.source) \ {A} : CoversPairs(last.contexts, A, B)
    /\ (~last.threw /\ returnAllContextsOf(options)) => last.visited = last.contexts

\* C6: when the time budget is not exceeded, at most contextLimit tuples are
\* returned, limitReached is set if and only if the number of index
\* combinations exceeds contextLimit, and a 'context_limit' entry with cause
\* 'Context limit reached' is emitted exactly in that case.
C6_ContextLimitExact ==
  (Processed /\ ~last.counter.timeReached) =>
    /\ Len(last.contexts) <= contextLimitOf(options)
    /\ last.counter.limitReached
         <=> Cardinality(IndexTuples(last.loops)) > contextLimitOf(options)
    /\ LimitReported(last.entries)
         <=> Cardinality(IndexTuples(last.loops)) > contextLimitOf(options)

\* the rule traverses one array path only, in two or more of its fields
SharedArray(conditions) ==
  /\ AllSingle(conditions)
  /\ Cardinality(ArrayPaths(conditions)) = 1
  /\ Cardinality(MarkerFields(conditions)) >= 2

\* C7: when several path fields of a rule traverse the same array path (the
\* only array of the rule), exactly one loop descriptor is created for it,
\* every one of those fields carries the same placeholder, the number of
\* generated contexts is the length of the array when no budget trips, and
\* in each context all those fields are instantiated with the same index.
C7_SharedArrayUnified ==
  (Processed /\ SharedArray(last.source)) =>
    /\ Len(last.discovered) = 1
    /\ Len(last.loops) = 1
    /\ ArrayPaths(last.source) = {last.loops[1].completeObjectPath}
    /\ \A cf \in MarkerFields(last.source) :
         FieldOf(last.conditions[cf[1]], cf[2])
           = Replace(FieldOf(last.source[cf[1]], cf[2]), Marker, Placeholder(0))
    /\ ~Tripped(last.counter) =>
         Len(last.contexts)
           = loopItemsCount(documentJson, last.loops[1].completeObjectPath)
    /\ \A k \in 1..Len(last.contexts) :
         \A cf \in MarkerFields(last.source) :
           FieldOf(replaceContextValues(last.conditions[cf[1]], last.loops,
                                        last.contexts[k]), cf[2])
             = Replace(FieldOf(last.source[cf[1]], cf[2]), Marker,
                       <<".">> \o NumStr(last.contexts[k][1]))

\* a condition whose ref and comparisonRef traverse the same array of two
\* elements, evaluated in two contexts and reported as satisfied
C7_Witness ==
  /\ Processed
  /\ SharedArray(last.source)
  /\ Len(last.source) = 1
  /\ Cardinality(MarkerFields(last.source)) = 2
  /\ Len(last.contexts) = 2
  /\ last.visited = last.contexts
  /\ ReportedSatisfied(last.entries)

\* C8: for a rule with two or more loops, whatever the order in which the
\* fields mention the arrays, the path evaluated in a context tuple has the
\* placeholder of each loop replaced by the index the tuple holds for that
\* same loop, an index enumerated over that loop's own array.
C8_PlaceholderOwnIndex ==
  (Processed /\ Len(last.loops) >= 2) =>
    \A k \in 1..Len(last.contexts) :
      /\ ValidTuple(last.loops, last.contexts[k])
      /\ \A ci \in 1..Len(last.conditions) :
           \A f \in {"ref", "comparisonRef"} :
             FieldSet(last.conditions[ci], f) =>
               FieldOf(replaceContextValues(last.conditions[ci], last.loops,
                                            last.contexts[k]), f)
                 = BindFrom(FieldOf(last.conditions[ci], f), last.loops,
                            last.contexts[k], 1)

\* a loop whose array lies under the elements of another loop
Nested(loops) ==
  \E j \in 1..Len(loops) : Includes(loops[j].completeObjectPath, <<"[", "@">>)

\* C9: for a path traversing nested arrays at any depth, also when the rule
\* references other independent arrays, exactly the tuples are generated in
\* which each index is valid for the inner array found under the outer
\* indices already chosen (no budget being exceeded).
C9_NestedTuples ==
  (Processed /\ Nested(last.loops) /\ ~Tripped(last.counter)) =>
    /\ TupleSet(last.contexts) = IndexTuples(last.loops)
    /\ Len(last.contexts) = Cardinality(IndexTuples(last.loops))

\* the last segment of an array path
LastSegment(path) == extractLoopDetails(path \o Marker).objectName

\* two descriptors, with their own placeholders, for the array paths A and B
SeparateLoops(loops, A, B) ==
  \E i \in 1..Len(loops) :
    \E j \in 1..Len(loops) :
      /\ loops[i].completeObjectPath = A
      /\ loops[j].completeObjectPath = B
      /\ loops[i].parm # loops[j].parm

\* C10: when a rule references two arrays with the same last path segment
\* and different complete paths, loop discovery keeps two loop descriptors,
\* one per complete path, each with its own placeholder, and a warning is
\* emitted.
C10_SameNameSeparateLoops ==
  (Processed /\ AllSingle(last.source)) =>
    \A A \in ArrayPaths(last.source) :
      \A B \in ArrayPaths(last.source) \ {A} :
        LastSegment(A) = LastSegment(B) =>
          SeparateLoops(last.loops, A, B) /\ last.warned

\* the value a path resolves to when a path with the reserved prefix is
\* looked up in the side context only, and any other path in the document only
ResolvedBySide(path) ==
  IF StartsWith(path, ContextPrefix)
    THEN IF IsNullContext(contextObj) THEN Undefined
         ELSE ObjectPathGet(contextObj,
                            SubSeq(path, Len(ContextPrefix) + 1, Len(path)))
    ELSE ObjectPathGet(documentJson, path)

\* the left values reported in the records of an entry are those of
\* ResolvedBySide
ReportedBySide(entry) ==
  \A k \in 1..Len(entry.conditions) :
    \A q \in 1..Len(entry.conditions[k].conditionValues) :
      entry.conditions[k].conditionValues[q].instancePathValue
        = ResolvedBySide(entry.conditions[k].conditionValues[q].instancePath)

\* C11: for every condition path and every side context (an object, or
\* null), a path that begins with '_context.' is resolved against the side
\* context with the prefix stripped and never looked up in the document,
\* and a path without the prefix is resolved against the document only
\* (stated for the rules without array traversal: the operands resolved for
\* their conditions and the left values their entries report).
C11_SideContextOnly ==
  (Processed /\ ~HasMarker(last.source)) =>
    /\ \A ci \in 1..Len(last.source) :
         \A f \in {"ref", "comparisonRef"} :
           FieldSet(last.source[ci], f) =>
             getValueWithContext(documentJson, FieldOf(last.source[ci], f),
                                 contextObj)
               = ResolvedBySide(FieldOf(last.source[ci], f))
    /\ \A i \in 1..Len(last.entries) : ReportedBySide(last.entries[i])

\* no path field of the caller's rules holds a placeholder
NoPlaceholders(rs) ==
  \A i \in 1..Len(rs) :
    \A ci \in 1..Len(rs[i].conditions) :
      \A f \in {"ref", "comparisonRef"} :
        ~Includes(FieldOf(rs[i].conditions[ci], f), <<"[", "@">>)

\* evaluating again the caller's rules as they are now gives the entries
\* the call produced
SameOnSecondCall ==
  \A i \in 1..Len(emitted) : AloneEntries(emitted[i]) = emitted[i].entries

\* C12: validateRules never mutates its inputs: no step of a call, also of
\* a call that hits a budget or an error, changes the caller's rules, the
\* document, the side context or the options; after the call the caller's
\* rules hold no placeholder, and evaluating them again gives the same
\* result.
C12_InputsNeverMutated ==
  /\ [][UNCHANGED <<documentJson, rules, contextObj, options>>]_vars
  /\ [](pc = "returned" => NoPlaceholders(rules) /\ SameOnSecondCall)

\* a returned call whose working copy was annotated and whose generation
\* tripped a budget
C12_Witness ==
  /\ pc = "returned"
  /\ Len(rulesObj) = 1
  /\ rulesObj[1].conditions # rules[1].conditions
  /\ ~NoPlaceholders(rulesObj)
  /\ Tripped(last.counter)

\* positions of the 'context_limit' entries
LimitEntryAt(entries) ==
  {i \in 1..Len(entries) : entries[i].keyword = "context_limit"}

\* C13: whenever the context generation of a rule sets limitReached or
\* timeReached, the results hold an additional 'context_limit' entry for the
\* rule, whatever the evaluation of the generated contexts gave (satisfied,
\* not satisfied, or an error), and the exhausted budget is not what a
\* 'conditional' entry with errors reports.
C13_BudgetAlwaysReported ==
  (Processed /\ Tripped(last.counter)) =>
    /\ LimitEntryAt(last.entries) # {}
    /\ \A i \in 1..Len(last.entries) :
         (last.entries[i].keyword = "conditional" /\ last.entries[i].hasErrors)
           => last.threw

TimeReported(entries) ==
  \E i \in 1..Len(entries) :
    /\ entries[i].keyword = "context_limit"
    /\ \E q \in 1..Len(entries[i].errors) :
         entries[i].errors[q] = "Time limit reached"

\* C14: the time budget runs from the start time of the call and is not
\* reset between rules: once timeReached was set during the generation of a
\* rule, every later rule of the batch whose generation reaches a leaf check
\* (rules without loops included) gets timeReached set and a
\* 'context_limit' entry with cause 'Time limit reached'.
C14_TimeBudgetShared ==
  \A i \in 1..Len(emitted) :
    \A j \in (i + 1)..Len(emitted) :
      (emitted[i].counter.timeReached /\ emitted[j].counter.count >= 1) =>
        /\ emitted[j].clk.startTime = emitted[i].clk.startTime
        /\ emitted[j].counter.timeReached
        /\ TimeReported(emitted[j].entries)

\* the operands of a condition without array traversal, as lines 274-280
\* resolve them
LeftOperand(c) == getValueWithContext(documentJson, c.ref, contextObj)

RightOperand(c) ==
  IF c.hasRef THEN getValueWithContext(documentJson, c.comparisonRef, contextObj)
  ELSE c.comparisonValue

\* the condition has an absent left operand and a supported operator
AbsentLeft(c) ==
  LeftOperand(c).t = "undefined" /\ c.operator \in SupportedOperators

\* C15: when the left operand of a condition is absent, every supported
\* operator other than 'exists' and 'does_not_exists' (the negative ones
\* included) gives false and raises no error, for every right operand;
\* 'exists' gives false and 'does_not_exists' gives true. The rule of such
\* a condition raises nothing and is reported as satisfied only for
\* 'does_not_exists'.
C15_AbsentLeftIsFalse ==
  /\ \A i \in 1..Len(rules) :
       \A ci \in 1..Len(rules[i].conditions) :
         AbsentLeft(rules[i].conditions[ci]) =>
           testCondition(LeftOperand(rules[i].conditions[ci]),
                         RightOperand(rules[i].conditions[ci]),
                         rules[i].conditions[ci].operator)
             = Returns(rules[i].conditions[ci].operator = "does_not_exists")
  /\ (Processed /\ Len(last.source) = 1 /\ AbsentLeft(last.source[1])) =>
       /\ ~last.threw
       /\ ReportedSatisfied(last.entries)
            <=> last.source[1].operator = "does_not_exists"
       /\ WithErrors(last.entries) = {}

\* a processed rule whose condition applies '<>' to an absent left operand
\* and the number 1: nothing raised, no entry
C15_Witness ==
  /\ Processed
  /\ Len(last.source) = 1
  /\ AbsentLeft(last.source[1])
  /\ last.source[1].operator = "<>"
  /\ RightOperand(last.source[1]) = Num(1)
  /\ ~last.threw
  /\ last.entries = <<>>

\* the collection has a member equal to v
Member(collection, v) ==
  \E i \in 1..Len(collection.scalars) : collection.scalars[i] = v

PresentScalar(v) == v.t \in {"number", "boolean", "string"}

\* the membership operators on the operands l and r of a condition
MembershipExact(operator, l, r) ==
  /\ (operator = "in" /\ PresentScalar(l) /\ r.t = "array") =>
       testCondition(l, r, operator) = Returns(Member(r, l))
  /\ (operator = "not_in" /\ PresentScalar(l) /\ r.t = "array") =>
       testCondition(l, r, operator) = Returns(~Member(r, l))
  /\ (operator = "contains" /\ l.t = "array" /\ PresentScalar(r)) =>
       testCondition(l, r, operator) = Returns(Member(l, r))

\* C16: for every present left value (a number, a boolean, a string of any
\* letter case) and every right collection, 'in' passes exactly when the
\* collection has a member equal to the left value and 'not_in' exactly when
\* it has none; 'contains' with a collection as left operand passes exactly
\* when the collection has the right value as a member.
C16_MembershipExact ==
  (Processed /\ Len(last.source) = 1 /\ ~HasMarker(last.source)) =>
    /\ MembershipExact(last.source[1].operator, LeftOperand(last.source[1]),
                       RightOperand(last.source[1]))
    /\ (/\ last.source[1].operator = "in"
        /\ PresentScalar(LeftOperand(last.source[1]))
        /\ RightOperand(last.source[1]).t = "array"
        /\ Member(RightOperand(last.source[1]), LeftOperand(last.source[1])))
         => ReportedSatisfied(last.entries)

\* the value the generation finds at the path of the rule's loop number q
LoopValue(q) == ObjectPathGet(documentJson, last.loops[q].completeObjectPath)

\* the processed rule traverses one path, and what the document holds there
\* is not an array
NonArrayLoop ==
  /\ Processed
  /\ Len(last.loops) = 1
  /\ LoopValue(1).t # "array"

\* C17: when the value at a loop's path is absent or is not an array (null,
\* a number, a boolean, an object or a string), the generation treats it as
\* an empty array: no tuple is produced and no error is raised.
C17_NonArrayIsEmpty ==
  NonArrayLoop => (last.contexts = <<>> /\ ~last.threw)

\* the processed rule traverses no array
LoopFree == Processed /\ Len(last.discovered) = 0

\* C18: for a rule without loops the generation returns exactly one tuple,
\* the empty tuple, whatever the options (contextLimit, timeLimit) are; it
\* never returns zero tuples for such a rule.
C18_LoopFreeSingleTuple ==
  LoopFree => last.contexts = <<<<>>>>

\* the tuple a comes before the tuple b in row-major order: at the first
\* loop where they differ, a has the lower index
RowMajorBefore(a, b) ==
  \E i \in 1..Len(a) :
    /\ i <= Len(b)
    /\ a[i] < b[i]
    /\ \A j \in 1..(i - 1) : a[j] = b[j]

RowMajor(tuples) ==
  \A j \in 1..Len(tuples) : \A k \in (j + 1)..Len(tuples) :
    RowMajorBefore(tuples[j], tuples[k])

IsPrefix(s, t) ==
  /\ Len(s) <= Len(t)
  /\ \A i \in 1..Len(s) : s[i] = t[i]

\* a clock that stands still at the start time
StillClock ==
  [now |-> 0, startTime |-> 0, jumpAt |-> 1, dt |-> 0, timeLimit |-> DefaultTimeLimit]

\* what the generation returns for the loops of the processed rule when no
\* budget restrains it
Unrestrained ==
  explodeContexts(documentJson, last.loops, <<>>, DefaultContextLimit, StillClock,
                  NewCounter).tuples

\* the record of a context in which the conditions hold
RecordOfContext(evaluation) ==
  IF ~evaluation.threw /\ evaluation.result
    THEN <<[result |-> TRUE, conditionValues |-> evaluation.conditionValues]>>
    ELSE <<>>

\* the records of the contexts number k and later of the processed rule in
\* which its conditions hold, in the order of the tuples
RECURSIVE PassingFrom(_)
PassingFrom(k) ==
  IF k > Len(last.contexts) THEN <<>>
  ELSE RecordOfContext(EvaluateContext(documentJson, last.conditions, last.loops,
                                       last.contexts[k], contextObj))
       \o PassingFrom(k + 1)

FirstOnly(s) == IF Len(s) > 1 THEN <<s[1]>> ELSE s

\* the per-context records of a rule's 'conditional' entry
ContextRecords(entries) ==
  IF Len(entries) > 0 /\ entries[1].keyword = "conditional"
    THEN entries[1].conditions
    ELSE <<>>

\* C19: the tuples of a rule are in row-major order over its sorted loops,
\* the first loop varying slowest; under a tripped budget they are a prefix
\* of the tuples generated without a budget; the per-context records of the
\* rule's entry are in the order of their tuples.
C19_RowMajorOrder ==
  Processed =>
    /\ RowMajor(last.contexts)
    /\ RowMajor(Unrestrained)
    /\ IsPrefix(last.contexts, Unrestrained)
    /\ ~Tripped(last.counter) => last.contexts = Unrestrained
    /\ (~last.threw /\ ~last.direct) =>
         ContextRecords(last.entries)
           = IF returnAllContextsOf(options) THEN PassingFrom(1)
             ELSE FirstOnly(PassingFrom(1))

\* a rule over two loops whose generation a budget cut short after two
\* tuples, both reported, each with its own record
C19_Witness ==
  /\ Processed
  /\ Len(last.loops) = 2
  /\ Tripped(last.counter)
  /\ Len(last.contexts) = 2
  /\ Len(Unrestrained) > 2
  /\ ~last.threw
  /\ Len(ContextRecords(last.entries)) = 2
  /\ ContextRecords(last.entries)[1] # ContextRecords(last.entries)[2]

\* the time t lies between the bounds of the rule, bounds included; a bound
\* that is not set does not restrict
InWindow(rule, t) ==
  /\ rule.initialDate.set => rule.initialDate.at <= t
  /\ rule.endDate.set => t <= rule.endDate.at

\* the positions of the caller's rules whose window holds the time of the
\* call, in order
WindowIds ==
  SelectSeq([i \in 1..Len(rules) |-> i], LAMBDA i : InWindow(rules[i], startTime))

\* C20: a rule is evaluated exactly when the time of the call lies within
\* [initialDate, endDate], bounds included, an absent bound not restricting;
\* a rule outside its window contributes no entry of any kind, and the
\* other rules contribute the entries they produce without it.
C20_DateWindow ==
  /\ pc # "idle" =>
       [k \in 1..Len(rulesObj) |-> rulesObj[k].id] = WindowIds
  /\ pc = "returned" =>
       /\ [k \in 1..Len(emitted) |-> emitted[k].id] = WindowIds
       /\ results = EntriesOf(emitted)
       /\ \A k \in 1..Len(emitted) : emitted[k].entries = AloneEntries(emitted[k])
       /\ \A q \in 1..Len(results) : InWindow(rules[results[q].id], startTime)

\* a returned batch whose first rule starts after the call and would raise,
\* and whose second rule ends at the very time of the call: the only entry
\* is that of the second rule
C20_Witness ==
  /\ pc = "returned"
  /\ Len(rules) = 2
  /\ HasConflict(rules[1].conditions)
  /\ rules[1].initialDate = DateAt(startTime + 1)
  /\ rules[2].endDate = DateAt(startTime)
  /\ Len(results) = 1
  /\ results[1].id = 2
  /\ ErrorFree(results[1])

\* the generation of the processed rule, step by step
Generation ==
  explodeContextsLogged(documentJson, last.loops, <<>>, contextLimitOf(options),
                        emitted[Len(emitted)].clk, NewCounter, <<>>)

\* no step follows a step that left a budget flag set
HaltsOnFlag(log) ==
  \A k \in 1..(Len(log) - 1) : ~Tripped(log[k].counter)

\* the counter only grows, by one at each leaf and at nothing else, and a
\* flag once set stays set
CounterMonotone(log) ==
  \A k \in 1..Len(log) :
    /\ log[k].counter.count
         = Cardinality({j \in 1..k : log[j].kind = "leaf"})
    /\ \A j \in 1..k :
         /\ log[j].counter.limitReached => log[k].counter.limitReached
         /\ log[j].counter.timeReached => log[k].counter.timeReached

\* C21: the generation halts once a budget flag is set: at every step the
\* counter is at most contextLimit + 1; after limitReached or timeReached is
\* set no leaf is visited, no array is resolved and no tuple joins a
\* returned list; the flags are never reset while the rule is processed.
C21_HaltsOnceTripped ==
  Processed =>
    /\ Generation.tuples = last.contexts
    /\ Generation.counter = last.counter
    /\ \A k \in 1..Len(Generation.log) :
         Generation.log[k].counter.count <= contextLimitOf(options) + 1
    /\ last.counter.count <= contextLimitOf(options) + 1
    /\ HaltsOnFlag(Generation.log)
    /\ CounterMonotone(Generation.log)
    /\ Tripped(last.counter) =>
         /\ Len(Generation.log) > 0
         /\ Generation.log[Len(Generation.log)].kind = "leaf"
         /\ Generation.log[Len(Generation.log)].counter = last.counter

\* a rule over nested arrays whose generation tripped the context limit in
\* a nested call while the enclosing loop had iterations left
C21_Witness ==
  /\ Processed
  /\ Len(last.loops) = 2
  /\ last.counter.limitReached
  /\ last.counter.count = contextLimitOf(options) + 1
  /\ contextLimitOf(options) = 1
  /\ last.contexts = <<>>
  /\ Len(Unrestrained) = 4
  /\ Generation.log[Len(Generation.log)].kind = "leaf"

\* the evaluation of the conditions of the processed rule in its context
\* number k
ContextEvaluation(k) ==
  EvaluateContext(documentJson, last.conditions, last.loops, last.contexts[k],
                  contextObj)

PassesAt(k) == ~ContextEvaluation(k).threw /\ ContextEvaluation(k).result

RaisesAt(k) == ContextEvaluation(k).threw

\* context number k is the first whose conjunction passes, and the
\* evaluation reaches it
FirstPassingAt(k) ==
  /\ PassesAt(k)
  /\ \A j \in 1..(k - 1) : ~PassesAt(j) /\ ~RaisesAt(j)

NoneRaises == \A k \in 1..Len(last.contexts) : ~RaisesAt(k)

\* C22: when returnAllContexts is false the evaluation stops at the first
\* context, in generation order, whose conjunction passes: the result holds
\* one record, that of this context, and no later context is evaluated, so
\* an error a later context would raise is not reported. When it is true,
\* the result holds one record for each passing context and none for the
\* others.
C22_FirstPassingOnly ==
  (Processed /\ ~last.direct) =>
    /\ ~returnAllContextsOf(options) =>
         \A k \in 1..Len(last.contexts) :
           FirstPassingAt(k) =>
             /\ ~last.threw
             /\ Len(ContextRecords(last.entries)) = 1
             /\ ContextRecords(last.entries) = RecordOfContext(ContextEvaluation(k))
             /\ last.visited = SubSeq(last.contexts, 1, k)
    /\ (returnAllContextsOf(options) /\ NoneRaises) =>
         /\ ~last.threw
         /\ ContextRecords(last.entries) = PassingFrom(1)
         /\ Len(ContextRecords(last.entries))
              = Cardinality({k \in 1..Len(last.contexts) : PassesAt(k)})
         /\ last.visited = last.contexts

\* a rule evaluated with returnAllContexts false whose first context passes
\* and whose second context would raise: one record, no error
C22_Witness ==
  /\ Processed
  /\ ~last.direct
  /\ ~returnAllContextsOf(options)
  /\ Len(last.contexts) = 2
  /\ FirstPassingAt(1)
  /\ RaisesAt(2)
  /\ last.visited = <<last.contexts[1]>>
  /\ ~last.threw
  /\ Len(ContextRecords(last.entries)) = 1
  /\ WithErrors(last.entries) = {}

\* the entries of the results that carry the id i, in order
EntriesWithId(i) == SelectSeq(results, LAMBDA e : e.id = i)

RaisedEntry(e) == e.keyword = "conditional" /\ e.hasErrors /\ Len(e.errors) > 0

\* the entries of one rule: one 'conditional' entry with errors, or at most
\* one error-free 'conditional' entry followed by at most one
\* 'context_limit' entry
RuleShape(es) ==
  \/ Len(es) = 0
  \/ Len(es) = 1 /\ (RaisedEntry(es[1]) \/ ErrorFree(es[1])
                        \/ es[1].keyword = "context_limit")
  \/ Len(es) = 2 /\ ErrorFree(es[1]) /\ es[2].keyword = "context_limit"

\* the entries are in the order of the rules, those of a rule together
InRuleOrder ==
  \A q \in 1..Len(results) : \A r \in (q + 1)..Len(results) :
    results[q].id <= results[r].id

\* C23: the result list only grows at its end and follows the order of the
\* input rules: every entry of a rule precedes every entry of a later rule.
\* A rule whose evaluation raised contributes exactly one 'conditional'
\* entry with errors; any other rule contributes at most one error-free
\* 'conditional' entry, followed immediately by at most one 'context_limit'
\* entry: never more than two entries. An empty rule list gives an empty
\* result.
C23_AppendOnlyInRuleOrder ==
  /\ [][IsPrefix(results, results')]_vars
  /\ [](/\ InRuleOrder
        /\ \A i \in 1..Len(rules) :
             /\ RuleShape(EntriesWithId(i))
             /\ Len(EntriesWithId(i)) <= 2
        /\ \A k \in 1..Len(emitted) :
             /\ EntriesWithId(emitted[k].id) = emitted[k].entries
             /\ emitted[k].threw =>
                  /\ Len(emitted[k].entries) = 1
                  /\ RaisedEntry(emitted[k].entries[1])
             /\ ~emitted[k].threw =>
                  \A q \in 1..Len(emitted[k].entries) :
                    ~RaisedEntry(emitted[k].entries[q])
        /\ \A q \in 1..Len(results) :
             \E k \in 1..Len(emitted) : emitted[k].id = results[q].id
        /\ Len(rules) = 0 => results = <<>>)

\* a returned batch of two rules: the first contributes an error-free
\* 'conditional' entry and a 'context_limit' entry, the second, which
\* raised, one entry with errors after them
C23_Witness ==
  /\ pc = "returned"
  /\ Len(results) = 3
  /\ results[1].id = 1 /\ ErrorFree(results[1])
  /\ results[2].id = 1 /\ results[2].keyword = "context_limit"
  /\ results[3].id = 2 /\ RaisedEntry(results[3])

====
